---- MODULE Spec2Model ----
(***************************************************************************)
(* State-machine model of the micrified.com REST backend: the login        *)
(* endpoint (route/login), the blog endpoint (route/blog) and the static   *)
(* endpoint (route/static), together with the auth service (penalty map,   *)
(* session table) and the database service (Transaction, Connection) they  *)
(* call.  One worker runs one request at a time; every action is one       *)
(* access of a handler to shared state (penalty map, session table, data   *)
(* store) together with the local code that follows it.                    *)
(***************************************************************************)
EXTENDS Integers, Sequences, FiniteSets, TLC

(* ------------------------------ bounds --------------------------------- *)

\* The clock runs from 0 to MaxTime.
MaxTime == 1
\* Number of distinct session secrets the random generator can draw.
NumSecrets == 1
\* Login outcomes remembered in a three-attempt scenario.
MaxHist == 3
\* Rows an auto-increment column can number: ids run from 1 to MaxRows.
MaxRows == 2
\* Result handles counted as held open: the count is exact below MaxOpen,
\* and MaxOpen stands for MaxOpen or more.
MaxOpen == 2

\* The request workers that run concurrently (one goroutine per request).
Workers == {"w1", "w2"}
Origins == {"ip1", "ip2"}
\* alice has an account, mallory has none.
Usernames == {"alice", "mallory"}
Passphrases == {"good", "bad"}
Secrets == 1..NumSecrets
\* Secrets a request can present: the issued ones and 0, one never issued.
PresentedSecrets == 0..NumSecrets
\* Session periods a login can request.
Periods == {1, 2, 3}
\* The longest period the policy grants.
MaxPeriod == 2

\* HTTP status codes used by the handlers.
StatusOK == 200
StatusBadRequest == 400
StatusUnauthorized == 401
StatusNotFound == 404
StatusTooManyRequests == 429
StatusInternalServerError == 500

VARIABLES
  penalty,    \* auth service: origin -> penalised flag
  sessions,   \* auth service: username -> session or NoSession
  now,        \* wall clock
  content,    \* data store: ids of the committed page_content rows
  blogs,      \* data store: committed blog_pages rows (id, content_id)
  pages,      \* data store: committed static_pages rows (name, content_id)
  nextId,     \* data store: next auto-increment id of each table
  open,       \* data store: result handles of queries held open
  pc,         \* per worker: position in its handler
  req,        \* per worker: request inputs and handler locals
  last,       \* the response of the request that finished last
  hist        \* outcomes of the logins a scenario records, in order of return

authVars == <<penalty, sessions>>
storeVars == <<content, blogs, pages, nextId, open>>
vars == <<penalty, sessions, now, content, blogs, pages, nextId, open, pc,
          req, last, hist>>

(* --------------------------- auth service ------------------------------ *)

NoSession == [secret |-> 0, expiration |-> -1]

\* The one-way function behind the stored hash.
Hash(passphrase, salt) == <<passphrase, salt>>

\* The users/credentials tables joined on user_id: username -> (hash, salt).
Credentials == [alice |-> [hash |-> Hash("good", "s1"), salt |-> "s1"]]

\* auth.Compare(passphrase, salt, hash)
Compare(passphrase, salt, hash) == Hash(passphrase, salt) = hash

\* Auth.Penalised(ip)
Penalised(pen, ip) == pen[ip]

\* Auth.Penalise(ip)
Penalise(pen, ip) == [pen EXCEPT ![ip] = TRUE]

\* Auth.NoPenalty(ip)
NoPenalty(pen, ip) == [pen EXCEPT ![ip] = FALSE]

\* The period the policy grants for a requested period.
ClampPeriod(period) == IF period > MaxPeriod THEN MaxPeriod ELSE period

\* Auth.Authenticate(ip, username, period, doAuth), given what doAuth
\* returned and the secret the generator drew: (session, ok, err).
Authenticate(ip, username, period, verified, secret, t) ==
  IF verified.err THEN [session |-> NoSession, ok |-> FALSE, err |-> TRUE]
  ELSE IF ~verified.ok THEN [session |-> NoSession, ok |-> FALSE, err |-> FALSE]
  ELSE [session |-> [secret |-> secret, expiration |-> t + ClampPeriod(period)],
        ok |-> TRUE, err |-> FALSE]

\* A guard that does not look at the expiration.
AuthorizedNoExpiry(sess, ip, username, secret, t) ==
  /\ sess[username] # NoSession
  /\ sess[username].secret = secret

\* Auth.Authorized(ip, username, secret): TRUE when it returns a nil error.
Authorized(sess, ip, username, secret, t) ==
  /\ sess[username] # NoSession
  /\ sess[username].secret = secret
  /\ t <= sess[username].expiration

(* --------------------------- login endpoint ---------------------------- *)

\* Outcomes of the credential query: the rows come back, Query fails, or
\* Scan fails.
DbOutcomes == {"rows", "queryErr", "scanErr"}

\* A doAuth that reports a name without an account as an error.
doAuthNoAccountError(username, passphrase, db) ==
  IF db = "queryErr" THEN [ok |-> FALSE, err |-> TRUE, found |-> "infra"]
  ELSE IF username \notin DOMAIN Credentials
    THEN [ok |-> FALSE, err |-> TRUE, found |-> "nouser"]
  ELSE IF db = "scanErr" THEN [ok |-> FALSE, err |-> TRUE, found |-> "infra"]
  ELSE LET stored == Credentials[username]
           same == Compare(passphrase, stored.salt, stored.hash)
       IN [ok |-> same, err |-> FALSE,
           found |-> IF same THEN "match" ELSE "mismatch"]

\* The doAuth closure of login Post: (ok, err) and what the lookup found.
doAuth(username, passphrase, db) ==
  IF db = "queryErr" THEN [ok |-> FALSE, err |-> TRUE, found |-> "infra"]
  ELSE IF username \notin DOMAIN Credentials
    THEN [ok |-> FALSE, err |-> FALSE, found |-> "nouser"]
  ELSE IF db = "scanErr" THEN [ok |-> FALSE, err |-> TRUE, found |-> "infra"]
  ELSE LET stored == Credentials[username]
           same == Compare(passphrase, stored.salt, stored.hash)
       IN [ok |-> same, err |-> FALSE,
           found |-> IF same THEN "match" ELSE "mismatch"]

\* Whether doAuth returns with the result handle of its query open: Query
\* opened it and rows.Next() returned true, which leaves it open; a Next()
\* that returns false closes it.
doAuthHolds(username, db) ==
  db # "queryErr" /\ username \in DOMAIN Credentials

\* One more result handle is held.
Hold(n) == IF n < MaxOpen THEN n + 1 ELSE n

\* Whether the presented credentials are those of an account.
Correct(username, passphrase) ==
  /\ username \in DOMAIN Credentials
  /\ Hash(passphrase, Credentials[username].salt) = Credentials[username].hash

\* A gate that lets every origin through.
PostGateOff(pen, ip) == FALSE

\* A gate that rejects only when every origin of the map is penalised.
PostGateEveryOrigin(pen, ip) == \A o \in DOMAIN pen : Penalised(pen, o)

\* login Post, the gate: TRUE when the handler rejects the request.
PostGate(pen, ip) == Penalised(pen, ip)

\* A penalty update with its two branches exchanged.
PostPenaltyUpdateSwapped(pen, ip, ok) ==
  IF ok THEN Penalise(pen, ip) ELSE NoPenalty(pen, ip)

\* A penalty update that does not wipe the penalty of a successful login.
PostPenaltyUpdateNoClear(pen, ip, ok) ==
  IF ok THEN pen ELSE Penalise(pen, ip)

\* A penalty update whose failure branch flips the flag of the origin.
PostPenaltyUpdateToggle(pen, ip, ok) ==
  IF ok THEN NoPenalty(pen, ip) ELSE [pen EXCEPT ![ip] = ~@]

\* A penalty update that keeps one flag for all origins.
PostPenaltyUpdateEveryOrigin(pen, ip, ok) ==
  [o \in DOMAIN pen |-> ~ok]

\* A penalty update that does not penalise a failed login.
PostPenaltyUpdateNoPenalise(pen, ip, ok) ==
  IF ok THEN NoPenalty(pen, ip) ELSE pen

\* login Post, the penalty update after Authenticate returned (ok, nil).
PostPenaltyUpdate(pen, ip, ok) ==
  IF ok THEN NoPenalty(pen, ip) ELSE Penalise(pen, ip)

\* An error path that treats an infrastructure error as a failed login.
PostErrorPenaltyPenalise(pen, ip) == Penalise(pen, ip)

\* An error path that wipes the penalty as a successful login does.
PostErrorPenaltyClear(pen, ip) == NoPenalty(pen, ip)

\* login Post, the penalty state after Authenticate returned an error.
PostErrorPenalty(pen, ip) == pen

\* login Post, the status of the response once Authenticate returned.
PostStatus(ok, err) ==
  IF err THEN StatusInternalServerError
  ELSE IF ok THEN StatusOK ELSE StatusUnauthorized

\* login Post, the error the handler returns once Authenticate returned: the
\* error of the lookup as it is, or "Bad credentials", or none.
PostError(ok, err) ==
  IF err THEN "lookup error"
  ELSE IF ok THEN "none" ELSE "Bad credentials"

\* A handler that asks for the longest period whatever the body says.
PostPeriodLongest(period) == MaxPeriod

\* login Post, the period the handler hands to Authenticate: login.Period.
PostPeriod(period) == period

\* A worker between requests.
IdleReq ==
  [kind |-> "none", ip |-> "ip1", penAtGate |-> FALSE, found |-> "none",
   ok |-> FALSE, err |-> FALSE, session |-> NoSession,
   authorized |-> FALSE, arg1 |-> 0, step1 |-> "none", contentId |-> 0,
   arg2 |-> 0, step2 |-> "none", indexId |-> 0, indexCid |-> 0,
   lastResult |-> 0, username |-> "none", secret |-> 0, seen |-> 0,
   cause |-> "none", calls |-> 0, timedOut |-> FALSE, period |-> 0,
   issued |-> 0, decided |-> 0]

\* No request has finished yet.
NoRes ==
  [kind |-> "none", status |-> 0, error |-> FALSE,
   penBefore |-> FALSE, penAfter |-> FALSE, penOp |-> "none",
   found |-> "none", correct |-> FALSE, session |-> NoSession,
   authorized |-> FALSE, step1 |-> "none", step2 |-> "none",
   contentId |-> 0, committed |-> FALSE, failure |-> "none",
   panic |-> FALSE, id |-> 0, username |-> "none", secret |-> 0,
   message |-> "none", calls |-> 0, timedOut |-> FALSE, period |-> 0,
   issued |-> 0]

\* login Post up to the body checks: the body cannot be read (500) or is
\* not the JSON of a LoginCredential (400).
LoginBadBody(w, ips) ==
  /\ pc[w] = "idle"
  /\ \E ip \in ips, st \in {StatusInternalServerError, StatusBadRequest} :
       last' = [NoRes EXCEPT !.kind = "login", !.status = st,
                             !.error = TRUE, !.failure = "body",
                             !.message = "body error",
                             !.penBefore = penalty[ip],
                             !.penAfter = penalty[ip]]
  /\ UNCHANGED <<penalty, sessions, now, pc, req, storeVars>>

\* login Post up to the gate: a well-formed request arrives and the handler
\* asks Auth.Penalised(ip); a penalised origin gets 429 at once.  The
\* credentials of the body are drawn where the handler first reads them.
\* seen is how many recorded logins had returned when the gate was asked.
LoginGate(w, ips, creds) ==
  /\ pc[w] = "idle"
  /\ \E ip \in ips :
       IF PostGate(penalty, ip)
         THEN /\ \E c \in creds :
                   last' = [NoRes EXCEPT !.kind = "login",
                              !.status = StatusTooManyRequests,
                              !.error = TRUE,
                              !.message = "Try again later",
                              !.penBefore = penalty[ip],
                              !.penAfter = penalty[ip],
                              !.correct = Correct(c[1], c[2])]
              /\ UNCHANGED <<pc, req>>
         ELSE /\ req' = [req EXCEPT ![w] =
                           [IdleReq EXCEPT !.kind = "login", !.ip = ip,
                                           !.penAtGate = penalty[ip],
                                           !.seen = Len(hist)]]
              /\ pc' = [pc EXCEPT ![w] = "auth"]
              /\ last' = last
  /\ UNCHANGED <<penalty, sessions, now, storeVars>>

\* login Post, the call of Auth.Authenticate: doAuth queries the credential
\* store and compares; a match issues a session.  period and issued keep the
\* period the body asked for and the time of issuance of that session;
\* decided keeps the instant at, given by the caller, at which Authenticate
\* issued the session.
LoginAuthenticateAt(w, creds, dbs, at) ==
  /\ pc[w] = "auth"
  /\ \E c \in creds, per \in Periods, db \in dbs, secret \in Secrets :
       LET r == req[w]
           verified == doAuth(c[1], c[2], db)
           a == Authenticate(r.ip, c[1], PostPeriod(per), verified, secret,
                             now)
       IN /\ req' = [req EXCEPT ![w] =
                       [r EXCEPT !.username = c[1],
                                 !.found = verified.found, !.ok = a.ok,
                                 !.err = a.err, !.session = a.session,
                                 !.period = IF a.ok THEN per ELSE 0,
                                 !.issued = IF a.ok THEN now ELSE 0,
                                 !.decided = IF a.ok THEN at ELSE 0]]
          /\ sessions' = IF a.ok /\ ~a.err
                           THEN [sessions EXCEPT ![c[1]] = a.session]
                           ELSE sessions
          /\ open' = IF doAuthHolds(c[1], db) THEN Hold(open) ELSE open
  /\ pc' = [pc EXCEPT ![w] = "update"]
  /\ UNCHANGED <<penalty, now, last, content, blogs, pages, nextId>>

\* The same call where the instant of the decision is not recorded.
LoginAuthenticate(w, creds, dbs) == LoginAuthenticateAt(w, creds, dbs, 0)

\* login Post from the return of Authenticate to the return of the handler:
\* an error is returned as 500; otherwise the penalty is wiped or set and
\* the session or "Bad credentials" is returned.
LoginReturn(w) ==
  /\ pc[w] = "update"
  /\ LET r == req[w]
         st == PostStatus(r.ok, r.err)
         pen == IF r.err THEN PostErrorPenalty(penalty, r.ip)
                ELSE PostPenaltyUpdate(penalty, r.ip, r.ok)
         op == IF r.err /\ pen = penalty THEN "none"
               ELSE IF pen[r.ip] THEN "penalise" ELSE "clear"
     IN /\ penalty' = pen
        /\ last' = [NoRes EXCEPT !.kind = "login",
                      !.status = st, !.error = (st # StatusOK),
                      !.message = PostError(r.ok, r.err),
                      !.penBefore = r.penAtGate, !.penAfter = pen[r.ip],
                      !.penOp = op, !.found = r.found,
                      !.correct = (r.found = "match"),
                      !.session = IF st = StatusOK THEN r.session
                                  ELSE NoSession,
                      !.period = r.period, !.issued = r.issued]
  /\ pc' = [pc EXCEPT ![w] = "idle"]
  /\ req' = [req EXCEPT ![w] = IdleReq]
  /\ UNCHANGED <<sessions, now, storeVars>>

(* ------------------------- database service ---------------------------- *)

\* The prior result the sequencer hands to the first step (nil).
NoResult == 0

\* Names a static page can be posted under.
Names == {"home"}

MutatingKinds == {"blogPost", "staticPost", "blogPut", "blogDelete"}
PostKinds == {"blogPost", "staticPost"}

\* A statement that numbers a new row fails once the ids are used up.
CanNumber(n) == n <= MaxRows

(* ---------------------- blog and static endpoints ---------------------- *)

\* blog Post, whether the handler goes on after Auth.Authorized returned.
BlogPostProceeds(authorized) == authorized

\* static Post, whether the handler goes on after Auth.Authorized returned.
StaticPostProceeds(authorized) == authorized

\* blog Put, whether the handler goes on after Auth.Authorized returned.
BlogPutProceeds(authorized) == authorized

\* A guard whose error sets the status and does not end the handler.
BlogDeleteProceedsAlways(authorized) == TRUE

\* blog Delete, whether the handler goes on after Auth.Authorized returned.
BlogDeleteProceeds(authorized) == authorized

Proceeds(kind, authorized) ==
  CASE kind = "blogPost" -> BlogPostProceeds(authorized)
    [] kind = "staticPost" -> StaticPostProceeds(authorized)
    [] kind = "blogPut" -> BlogPutProceeds(authorized)
    [] kind = "blogDelete" -> BlogDeleteProceeds(authorized)

\* An insertBody that runs its INSERT on the database handle, outside the
\* transaction.
insertBodyOutsideTx(lastResult, next, outcome) ==
  IF outcome = "ok" /\ CanNumber(next)
    THEN [err |-> FALSE, row |-> next, result |-> next, inTx |-> FALSE]
    ELSE [err |-> TRUE, row |-> 0, result |-> 0, inTx |-> FALSE]

\* The insertBody closure of blog Post and static Post: one INSERT into
\* page_content through the transaction handle; lastResult is not read.
insertBody(lastResult, next, outcome) ==
  IF outcome = "ok" /\ CanNumber(next)
    THEN [err |-> FALSE, row |-> next, result |-> next, inTx |-> TRUE]
    ELSE [err |-> TRUE, row |-> 0, result |-> 0, inTx |-> TRUE]

\* An insertRecord that does not read the prior result and stores the zero
\* value as content_id.
insertRecordDefault(lastResult, next, outcome) ==
  IF outcome = "ok" /\ CanNumber(next)
    THEN [err |-> FALSE, id |-> next, content_id |-> 0, result |-> next]
    ELSE [err |-> TRUE, id |-> 0, content_id |-> 0, result |-> 0]

\* An insertRecord whose result is the prior result, so that the run
\* returns the result of its first step.
insertRecordPriorResult(lastResult, next, outcome) ==
  IF outcome = "idErr" THEN [err |-> TRUE, id |-> 0, content_id |-> 0,
                             result |-> 0]
  ELSE IF outcome = "ok" /\ CanNumber(next)
    THEN [err |-> FALSE, id |-> next, content_id |-> lastResult,
          result |-> lastResult]
    ELSE [err |-> TRUE, id |-> 0, content_id |-> 0, result |-> 0]

\* The insertRecord closure of blog Post: LastInsertId of the prior result
\* becomes the content_id of one INSERT into blog_pages.
insertRecord(lastResult, next, outcome) ==
  IF outcome = "idErr" THEN [err |-> TRUE, id |-> 0, content_id |-> 0,
                             result |-> 0]
  ELSE LET id == lastResult
       IN IF outcome = "ok" /\ CanNumber(next)
            THEN [err |-> FALSE, id |-> next, content_id |-> id,
                  result |-> next]
            ELSE [err |-> TRUE, id |-> 0, content_id |-> 0, result |-> 0]

\* The insertRecord closure of static Post: the row is keyed by the hash of
\* the page name, so a name already stored violates the key.
insertPage(lastResult, name, stored, outcome) ==
  IF outcome = "idErr" THEN [err |-> TRUE, id |-> 0, content_id |-> 0,
                             result |-> 0]
  ELSE LET id == lastResult
       IN IF outcome = "ok" /\ ~(\E p \in stored : p.name = name)
            THEN [err |-> FALSE, id |-> 0, content_id |-> id, result |-> 0]
            ELSE [err |-> TRUE, id |-> 0, content_id |-> 0, result |-> 0]

\* Whether ExecContext cancels the statement of a step when the deadline of
\* the request has passed: the closures hand it c.Service.Database.Context,
\* which is not the context x of the request and does not carry its deadline.
ExecCancelled(timedOut) == FALSE

\* A handler that sets no status for the error of Transaction.
PostTxStatusIgnored(err) == StatusOK

\* blog Post and static Post, the status once Transaction returned.
PostTxStatus(err) ==
  IF err THEN StatusInternalServerError ELSE StatusOK

\* blog Delete from the return of Connection to the end of the handler: each
\* failure sets the status through fail(), and the handler returns nil.
DeleteResult(failure) ==
  [status |-> IF failure # "none" THEN StatusInternalServerError
              ELSE StatusOK,
   error |-> FALSE]

\* blog Put from the return of Connection to the end of the handler.
PutResult(failure) ==
  [status |-> IF failure # "none" THEN StatusInternalServerError
              ELSE StatusOK,
   error |-> failure # "none"]

\* A mutating handler up to the body checks: the body cannot be read (500)
\* or is not the JSON of the expected type (400).
ResourceBadBody(w) ==
  /\ pc[w] = "idle"
  /\ \E k \in MutatingKinds, ip \in Origins,
        st \in {StatusInternalServerError, StatusBadRequest} :
       last' = [NoRes EXCEPT !.kind = k, !.status = st, !.error = TRUE,
                             !.failure = "body"]
  /\ UNCHANGED <<authVars, now, storeVars, pc, req>>

\* A mutating handler up to the guard: the handler asks
\* Auth.Authorized(ip, username, secret) and returns 401 on an error.
ResourceAuthorize(w, users, secrets) ==
  /\ pc[w] = "idle"
  /\ \E k \in MutatingKinds, ip \in Origins, u \in users, s \in secrets :
       LET authorized == Authorized(sessions, ip, u, s, now)
       IN IF Proceeds(k, authorized)
            THEN /\ req' = [req EXCEPT ![w] =
                              [IdleReq EXCEPT !.kind = k,
                                              !.authorized = authorized,
                                              !.username = u, !.secret = s]]
                 /\ pc' = [pc EXCEPT ![w] =
                             IF k \in PostKinds THEN "tx" ELSE "conn"]
                 /\ last' = last
            ELSE /\ last' = [NoRes EXCEPT !.kind = k,
                               !.status = StatusUnauthorized, !.error = TRUE,
                               !.authorized = authorized,
                               !.username = u, !.secret = s]
                 /\ UNCHANGED <<pc, req>>
  /\ UNCHANGED <<authVars, now, storeVars>>

\* Database.Transaction, begin and first step: the step gets no prior
\* result; the row it inserts stays pending in the transaction.  cause is
\* the error the run will return, calls the number of steps invoked.
TxStep1(w) ==
  /\ pc[w] = "tx"
  /\ \E outcome \in {"ok", "execErr", "beginErr"} :
       LET r == req[w]
           b == insertBody(NoResult, nextId.page_content, outcome)
       IN IF outcome = "beginErr"
            THEN /\ req' = [req EXCEPT ![w] =
                              [r EXCEPT !.err = TRUE, !.cause = "begin"]]
                 /\ pc' = [pc EXCEPT ![w] = "txend"]
                 /\ UNCHANGED <<content, nextId>>
            ELSE IF b.err
              THEN /\ req' = [req EXCEPT ![w] =
                                [r EXCEPT !.err = TRUE, !.step1 = "fail",
                                          !.cause = "step1", !.calls = 1,
                                          !.arg1 = NoResult]]
                   /\ pc' = [pc EXCEPT ![w] = "txend"]
                   /\ UNCHANGED <<content, nextId>>
              ELSE /\ req' = [req EXCEPT ![w] =
                                [r EXCEPT !.step1 = "ok", !.arg1 = NoResult,
                                          !.calls = 1,
                                          !.contentId = b.row,
                                          !.lastResult = b.result]]
                   /\ pc' = [pc EXCEPT ![w] = "tx2"]
                   /\ nextId' = [nextId EXCEPT !.page_content = @ + 1]
                   /\ content' = IF b.inTx THEN content
                                 ELSE content \cup {b.row}
  /\ UNCHANGED <<authVars, now, blogs, pages, open, last>>

\* Rows of static_pages pending in the transactions of other workers.
PendingPage(w, name) ==
  \E v \in Workers \ {w} :
    /\ pc[v] = "txend"
    /\ req[v].kind = "staticPost"
    /\ req[v].step2 = "ok"

\* Database.Transaction, second step: the step gets the result of the first.
\* An insert under a page name pending in another transaction waits.
TxStep2(w) ==
  /\ pc[w] = "tx2"
  /\ \E outcome \in {"ok", "execErr", "idErr"}, name \in Names :
       LET r == req[w]
           prior == r.lastResult
           exec == IF ExecCancelled(r.timedOut) /\ outcome = "ok"
                     THEN "execErr" ELSE outcome
           rec == IF r.kind = "blogPost"
                    THEN insertRecord(prior, nextId.blog_pages, exec)
                    ELSE insertPage(prior, name, pages, exec)
       IN /\ ~(r.kind = "staticPost" /\ exec = "ok"
               /\ PendingPage(w, name))
          /\ IF rec.err
               THEN /\ req' = [req EXCEPT ![w] =
                                 [r EXCEPT !.err = TRUE, !.step2 = "fail",
                                           !.cause = "step2",
                                           !.calls = r.calls + 1,
                                           !.arg2 = prior]]
                    /\ UNCHANGED nextId
               ELSE /\ req' = [req EXCEPT ![w] =
                                 [r EXCEPT !.step2 = "ok", !.arg2 = prior,
                                           !.calls = r.calls + 1,
                                           !.indexId = rec.id,
                                           !.indexCid = rec.content_id,
                                           !.lastResult = rec.result]]
                    /\ nextId' = IF r.kind = "blogPost"
                                   THEN [nextId EXCEPT !.blog_pages = @ + 1]
                                   ELSE nextId
  /\ pc' = [pc EXCEPT ![w] = "txend"]
  /\ UNCHANGED <<authVars, now, content, blogs, pages, open, last>>

\* Database.Transaction, the end, and the handler up to its return: a failed
\* step rolls the transaction back, otherwise it commits and both rows become
\* visible; blog Post then reads the id of the last result.
TxFinish(w) ==
  /\ pc[w] = "txend"
  /\ \E outcome \in {"ok", "commitErr", "idErr"} :
       LET r == req[w]
           done == ~r.err /\ outcome # "commitErr"
           err == r.err \/ outcome = "commitErr"
                    \/ (outcome = "idErr" /\ r.kind = "blogPost")
           st == PostTxStatus(err)
       IN /\ (r.err => outcome = "ok")
          /\ (outcome = "idErr" => r.kind = "blogPost")
          /\ content' = IF done THEN content \cup {r.contentId} ELSE content
          /\ blogs' = IF done /\ r.kind = "blogPost"
                        THEN blogs \cup {[id |-> r.indexId,
                                          content_id |-> r.indexCid]}
                        ELSE blogs
          /\ pages' = IF done /\ r.kind = "staticPost"
                        THEN pages \cup {[name |-> "home",
                                          content_id |-> r.indexCid]}
                        ELSE pages
          /\ last' = [NoRes EXCEPT !.kind = r.kind,
                        !.status = st, !.error = (st # StatusOK),
                        !.authorized = r.authorized, !.step1 = r.step1,
                        !.step2 = r.step2, !.contentId = r.contentId,
                        !.committed = done, !.calls = r.calls,
                        !.timedOut = r.timedOut,
                        !.failure = IF r.err THEN r.cause
                                    ELSE IF outcome = "ok" THEN "none"
                                    ELSE outcome,
                        !.id = IF st = StatusOK /\ r.kind = "blogPost"
                                 THEN r.lastResult ELSE 0]
  /\ pc' = [pc EXCEPT ![w] = "idle"]
  /\ req' = [req EXCEPT ![w] = IdleReq]
  /\ UNCHANGED <<authVars, now, nextId, open>>

\* The deadline of a request passes while its Transaction is between the
\* first step and the second: the context x of the request is cancelled.
Deadline(w) ==
  /\ pc[w] = "tx2"
  /\ ~req[w].timedOut
  /\ req' = [req EXCEPT ![w].timedOut = TRUE]
  /\ UNCHANGED <<authVars, now, storeVars, pc, last>>

\* The blog_pages rows a statement addressed to id joins to page_content.
Joined(id) == {b \in blogs : b.id = id /\ b.content_id \in content}

\* What a statement addressed to id found, once the store has answered it.
Found(id) == IF Joined(id) = {} THEN "norow" ELSE "row"

\* blog Get, the response: the id parameter is not a number (400), Query
\* fails (500), the join has no row of that id (404), Scan fails (500), or
\* the row is marshalled (200).
GetResult(valid, outcome, found) ==
  IF ~valid THEN [status |-> StatusBadRequest, failure |-> "param"]
  ELSE IF outcome = "queryErr"
    THEN [status |-> StatusInternalServerError, failure |-> "query"]
  ELSE IF found = "norow"
    THEN [status |-> StatusNotFound, failure |-> "notfound"]
  ELSE IF outcome = "scanErr"
    THEN [status |-> StatusInternalServerError, failure |-> "scan"]
  ELSE [status |-> StatusOK, failure |-> "none"]

\* blog Get: one query over the join, without a guard; the result handle is
\* opened by Query and closed by the deferred rows.Close() on every path, so
\* the handler leaves as many handles open as it found.
BlogGet(w) ==
  /\ pc[w] = "idle"
  /\ \E valid \in BOOLEAN, id \in 1..MaxRows,
        outcome \in {"ok", "queryErr", "scanErr"} :
       LET out == GetResult(valid, outcome, Found(id))
       IN last' = [NoRes EXCEPT !.kind = "blogGet",
                     !.status = out.status,
                     !.error = (out.status # StatusOK),
                     !.failure = out.failure,
                     !.found = IF valid /\ outcome # "queryErr"
                                 THEN Found(id) ELSE "none"]
  /\ UNCHANGED <<authVars, now, storeVars, pc, req>>

\* blog Delete from Database.Connection to the end of the handler: one DELETE
\* over the join removes the index row and its content row.
DeleteExec(w) ==
  /\ pc[w] = "conn"
  /\ req[w].kind = "blogDelete"
  /\ \E id \in 1..MaxRows, outcome \in {"ok", "connErr", "rowsErr"},
        nilResult \in BOOLEAN :
       LET r == req[w]
           hit == Joined(id)
           n == IF hit = {} THEN 0 ELSE 2
           failure == IF outcome = "connErr" THEN "conn"
                      ELSE IF outcome = "rowsErr" THEN "rows"
                      ELSE IF n # 2 THEN "count" ELSE "none"
           out == DeleteResult(failure)
       IN /\ (nilResult => outcome = "connErr")
          /\ IF outcome = "connErr"
               THEN UNCHANGED <<content, blogs>>
               ELSE /\ blogs' = blogs \ hit
                    /\ content' = content \ {b.content_id : b \in hit}
          /\ last' = [NoRes EXCEPT !.kind = r.kind,
                        !.status = out.status, !.error = out.error,
                        !.authorized = r.authorized, !.failure = failure,
                        !.found = IF outcome = "ok" THEN Found(id)
                                  ELSE "none",
                        !.panic = nilResult]
  /\ pc' = [pc EXCEPT ![w] = "idle"]
  /\ req' = [req EXCEPT ![w] = IdleReq]
  /\ UNCHANGED <<authVars, now, pages, nextId, open>>

\* blog Put from Database.Connection to the end of the handler: one UPDATE
\* over the join; the store reports how many rows it changed.
PutExec(w) ==
  /\ pc[w] = "conn"
  /\ req[w].kind = "blogPut"
  /\ \E id \in 1..MaxRows, outcome \in {"ok", "connErr", "rowsErr"},
        changed \in 0..2 :
       LET r == req[w]
           n == IF Joined(id) = {} THEN 0 ELSE changed
           failure == IF outcome = "connErr" THEN "conn"
                      ELSE IF outcome = "rowsErr" THEN "rows"
                      ELSE IF n = 0 THEN "count" ELSE "none"
           out == PutResult(failure)
       IN /\ (outcome # "ok" => changed = 0)
          /\ last' = [NoRes EXCEPT !.kind = r.kind,
                        !.status = out.status, !.error = out.error,
                        !.found = IF outcome = "ok" THEN Found(id)
                                  ELSE "none",
                        !.authorized = r.authorized, !.failure = failure]
  /\ pc' = [pc EXCEPT ![w] = "idle"]
  /\ req' = [req EXCEPT ![w] = IdleReq]
  /\ UNCHANGED <<authVars, now, storeVars>>

(* -------------------------------- clock -------------------------------- *)

Tick ==
  /\ now < MaxTime
  /\ now' = now + 1
  /\ UNCHANGED <<penalty, sessions, pc, req, last, storeVars>>

(* ---------------------------- specification ---------------------------- *)

AllCreds == Usernames \X Passphrases

Init ==
  /\ penalty = [o \in Origins |-> FALSE]
  /\ sessions = [u \in Usernames |-> NoSession]
  /\ now = 0
  /\ pc = [w \in Workers |-> "idle"]
  /\ req = [w \in Workers |-> IdleReq]
  /\ last = NoRes
  /\ hist = <<>>
  /\ content = {}
  /\ blogs = {}
  /\ pages = {}
  /\ nextId = [page_content |-> 1, blog_pages |-> 1]
  /\ open = 0

\* The login endpoint under every interleaving of its requests.
Next ==
  \/ \E w \in Workers : LoginBadBody(w, Origins) /\ UNCHANGED hist
  \/ \E w \in Workers : LoginGate(w, Origins, AllCreds) /\ UNCHANGED hist
  \/ \E w \in Workers :
       LoginAuthenticate(w, AllCreds, DbOutcomes) /\ UNCHANGED hist
  \/ \E w \in Workers : LoginReturn(w) /\ UNCHANGED hist
  \/ Tick /\ UNCHANGED hist

Spec == Init /\ [][Next]_vars

\* Three-attempt scenario: one client sends login requests with the wrong
\* passphrase of an account from ip1, one after the other, against a
\* credential store that answers; the other workers log in from ip2.
Client == "w1"
WrongCreds == {<<"alice", "bad">>}

\* What the scenario remembers of a finished login of the client.
Outcome(r) ==
  [status |-> r.status, penBefore |-> r.penBefore,
   queried |-> r.found # "none"]

NextThree ==
  \/ /\ Len(hist) < MaxHist
     /\ LoginGate(Client, {"ip1"}, WrongCreds)
     /\ hist' = IF pc'[Client] = "idle" THEN Append(hist, Outcome(last'))
                ELSE hist
  \/ LoginAuthenticate(Client, WrongCreds, {"rows"}) /\ UNCHANGED hist
  \/ LoginReturn(Client) /\ hist' = Append(hist, Outcome(last'))
  \/ \E w \in Workers \ {Client} :
       LoginGate(w, {"ip2"}, AllCreds) /\ UNCHANGED hist
  \/ \E w \in Workers \ {Client} :
       LoginAuthenticate(w, AllCreds, DbOutcomes) /\ UNCHANGED hist
  \/ \E w \in Workers \ {Client} : LoginReturn(w) /\ UNCHANGED hist
  \/ Tick /\ UNCHANGED hist

SpecThree == Init /\ [][NextThree]_vars

\* Recorded logins: every login of every worker, from every origin and with
\* every credential, against a credential store that answers, is recorded
\* when it returns; at most MaxHist logins are made.
Attempt(r, ip, username, seen, decided) ==
  [ip |-> ip, username |-> username, status |-> r.status,
   message |-> r.message, session |-> r.session, found |-> r.found, correct |-> r.correct, penBefore |-> r.penBefore,
   penAfter |-> r.penAfter, seen |-> seen, decided |-> decided]

NextHist ==
  \/ \E w \in Workers, ip \in Origins, c \in AllCreds :
       /\ Len(hist) + Cardinality({v \in Workers : pc[v] # "idle"}) < MaxHist
       /\ LoginGate(w, {ip}, {c})
       /\ hist' = IF pc'[w] = "idle"
                    THEN Append(hist, Attempt(last', ip, c[1], Len(hist), 0))
                    ELSE hist
  \/ \E w \in Workers :
       LoginAuthenticate(w, AllCreds, {"rows"}) /\ UNCHANGED hist
  \/ \E w \in Workers :
       /\ LoginReturn(w)
       /\ hist' = Append(hist, Attempt(last', req[w].ip, req[w].username,
                                       req[w].seen, req[w].decided))

SpecHist == Init /\ [][NextHist]_vars

\* Recorded logins with the instant of each decision: as NextHist, and a
\* login that Authenticate gave a session records how many recorded logins
\* had returned at that call.
NextRace ==
  \/ \E w \in Workers, ip \in Origins, c \in AllCreds :
       /\ Len(hist) + Cardinality({v \in Workers : pc[v] # "idle"}) < MaxHist
       /\ LoginGate(w, {ip}, {c})
       /\ hist' = IF pc'[w] = "idle"
                    THEN Append(hist, Attempt(last', ip, c[1], Len(hist), 0))
                    ELSE hist
  \/ \E w \in Workers :
       LoginAuthenticateAt(w, AllCreds, {"rows"}, Len(hist)) /\ UNCHANGED hist
  \/ \E w \in Workers :
       /\ LoginReturn(w)
       /\ hist' = Append(hist, Attempt(last', req[w].ip, req[w].username,
                                       req[w].seen, req[w].decided))

SpecRace == Init /\ [][NextRace]_vars

\* The mutating endpoints at one instant, from a session table the login
\* endpoint leaves: an account has no session, one that has expired, or one
\* that expires now; a name without an account has none.
InitStore ==
  /\ penalty = [o \in Origins |-> FALSE]
  /\ now = MaxTime + 1
  /\ sessions \in
       {[u \in Usernames |-> IF u \in DOMAIN Credentials THEN s ELSE NoSession] :
          s \in {NoSession} \cup
                [secret : Secrets, expiration : MaxTime..(MaxTime + 1)]}
  /\ pc = [w \in Workers |-> "idle"]
  /\ req = [w \in Workers |-> IdleReq]
  /\ last = NoRes
  /\ hist = <<>>
  /\ content = {}
  /\ blogs = {}
  /\ pages = {}
  /\ nextId = [page_content |-> 1, blog_pages |-> 1]
  /\ open = 0

NextStore ==
  \/ \E w \in Workers : BlogGet(w) /\ UNCHANGED hist
  \/ \E w \in Workers : ResourceBadBody(w) /\ UNCHANGED hist
  \/ \E w \in Workers :
       ResourceAuthorize(w, Usernames, PresentedSecrets) /\ UNCHANGED hist
  \/ \E w \in Workers : TxStep1(w) /\ UNCHANGED hist
  \/ \E w \in Workers : TxStep2(w) /\ UNCHANGED hist
  \/ \E w \in Workers : TxFinish(w) /\ UNCHANGED hist
  \/ \E w \in Workers : DeleteExec(w) /\ UNCHANGED hist
  \/ \E w \in Workers : PutExec(w) /\ UNCHANGED hist

SpecStore == InitStore /\ [][NextStore]_vars

\* The mutating endpoints with requests whose deadline passes.
NextDeadline ==
  \/ \E w \in Workers : ResourceBadBody(w) /\ UNCHANGED hist
  \/ \E w \in Workers :
       ResourceAuthorize(w, Usernames, PresentedSecrets) /\ UNCHANGED hist
  \/ \E w \in Workers : TxStep1(w) /\ UNCHANGED hist
  \/ \E w \in Workers : Deadline(w) /\ UNCHANGED hist
  \/ \E w \in Workers : TxStep2(w) /\ UNCHANGED hist
  \/ \E w \in Workers : TxFinish(w) /\ UNCHANGED hist
  \/ \E w \in Workers : DeleteExec(w) /\ UNCHANGED hist
  \/ \E w \in Workers : PutExec(w) /\ UNCHANGED hist

SpecDeadline == InitStore /\ [][NextDeadline]_vars

(* ------------------------------- claims -------------------------------- *)

\* Logins that passed the gate and have not returned.
PastGate == {w \in Workers : pc[w] \in {"auth", "update"}}

\* Requests between the guard and their return.
InStore == {w \in Workers : pc[w] \in {"tx", "tx2", "txend", "conn"}}

\* The last response answers a well-formed login request.
LoginAnswered == last.kind = "login" /\ last.failure # "body"

\* C1: a well-formed login request that finds its origin penalised at the
\* gate is answered 429 with no credential query, no comparison and no
\* session, whatever its credentials; no request that found its origin
\* penalised is ever past the gate.
C1_PenalisedRejectedBeforeCheck ==
  /\ (LoginAnswered /\ last.penBefore) =>
       /\ last.status = StatusTooManyRequests
       /\ last.error
       /\ last.found = "none"
       /\ last.session = NoSession
  /\ \A w \in PastGate : ~req[w].penAtGate

\* C1 witness: a request with the right credentials was answered 429.
C1_Witness ==
  /\ LoginAnswered
  /\ last.penBefore
  /\ last.correct
  /\ last.status = StatusTooManyRequests

\* C2: a login whose verify closure returned (false, nil), for an unknown
\* user or a wrong passphrase, is answered 401 without a session, no session
\* was made for it, and its origin is penalised when the handler returns.
C2_BadCredentialsPenalised ==
  /\ (LoginAnswered /\ last.found \in {"nouser", "mismatch"}) =>
       /\ last.status = StatusUnauthorized
       /\ last.error
       /\ last.session = NoSession
       /\ last.penAfter
  /\ \A w \in Workers :
       (pc[w] = "update" /\ req[w].found \in {"nouser", "mismatch"}) =>
         (req[w].session = NoSession /\ ~req[w].ok /\ ~req[w].err)

\* C2 witness: a wrong passphrase was answered 401.
C2_Witness ==
  /\ LoginAnswered
  /\ last.found = "mismatch"
  /\ last.status = StatusUnauthorized
  /\ last.penAfter

\* C3: a login from an origin not penalised at the gate whose verify closure
\* returned (true, nil) is answered 200 with a session (a secret and an
\* expiration), and its origin is not penalised when the handler returns.
C3_GoodCredentialsSessionAndClear ==
  (LoginAnswered /\ last.found = "match" /\ ~last.penBefore) =>
    /\ last.status = StatusOK
    /\ ~last.error
    /\ last.session # NoSession
    /\ last.session.secret \in Secrets
    /\ last.session.expiration >= 0
    /\ ~last.penAfter

\* C3 witness: a login was answered 200 with a session.
C3_Witness ==
  /\ LoginAnswered
  /\ last.found = "match"
  /\ last.status = StatusOK
  /\ last.session # NoSession

\* C4 as claimed: of three wrong-passphrase logins in a row from one origin,
\* the first two are answered 401 with the origin not penalised before the
\* attempt, and the third 429 without a credential query.
C4_Original ==
  Len(hist) >= 3 =>
    /\ hist[1].status = StatusUnauthorized /\ ~hist[1].penBefore
    /\ hist[2].status = StatusUnauthorized /\ ~hist[2].penBefore
    /\ hist[3].status = StatusTooManyRequests /\ ~hist[3].queried

\* C4 as amended: the first is answered 401 with the origin not penalised
\* before the attempt; the second and the third are answered 429 without a
\* credential query.
C4_FirstFailurePenalises ==
  /\ Len(hist) >= 1 =>
       /\ hist[1].status = StatusUnauthorized
       /\ ~hist[1].penBefore
       /\ hist[1].queried
  /\ \A i \in 2..3 :
       Len(hist) >= i =>
         /\ hist[i].status = StatusTooManyRequests
         /\ hist[i].penBefore
         /\ ~hist[i].queried

\* C4 witness: the client has finished three attempts.
C4_Witness == Len(hist) >= 3

\* C5: a mutating handler is between its guard and its return only if
\* Authorized returned no error, and a request whose guard returned an error
\* is answered 401 with no step run and nothing committed.
C5_GuardBeforeStore ==
  /\ \A w \in InStore : req[w].authorized
  /\ (last.kind \in MutatingKinds /\ last.failure # "body"
      /\ ~last.authorized) =>
       /\ last.status = StatusUnauthorized
       /\ last.error
       /\ last.step1 = "none"
       /\ last.step2 = "none"
       /\ ~last.committed

\* C5 witness: a static Post with a bad secret was answered 401 while the
\* store holds rows.
C5_Witness ==
  /\ last.kind = "staticPost"
  /\ ~last.authorized
  /\ last.status = StatusUnauthorized
  /\ content # {}

\* A session of username with this secret exists and has not expired.
LiveSession(username, secret) ==
  \E u \in Usernames :
    /\ u = username
    /\ sessions[u] # NoSession
    /\ sessions[u].secret = secret
    /\ now <= sessions[u].expiration

\* C6: a request passes the guard if and only if a session of its identity
\* with its secret exists and has not expired: every request past the guard
\* has one, and every request the guard answered 401 has none.
C6_AuthorizedIffLiveSession ==
  /\ \A w \in InStore : LiveSession(req[w].username, req[w].secret)
  /\ (last.kind \in MutatingKinds /\ last.status = StatusUnauthorized) =>
       ~LiveSession(last.username, last.secret)
  /\ (last.kind \in MutatingKinds /\ last.failure # "body"
      /\ last.status # StatusUnauthorized) => last.authorized

\* C6 witness: the secret of an expired session was answered 401.
C6_Witness ==
  /\ last.kind \in MutatingKinds
  /\ last.status = StatusUnauthorized
  /\ last.username \in DOMAIN Credentials
  /\ sessions[last.username] # NoSession
  /\ sessions[last.username].secret = last.secret
  /\ now > sessions[last.username].expiration

\* C7: a two-step create whose first step succeeded and whose second failed
\* is answered 500 with an error and its content row is in the store in no
\* later state; no content row of the store is without an index row.
C7_FailedCreateLeavesNoRow ==
  /\ (last.kind \in PostKinds /\ last.step1 = "ok" /\ last.step2 = "fail") =>
       /\ last.status = StatusInternalServerError
       /\ last.error
       /\ ~last.committed
       /\ last.contentId \notin content
  /\ \A c \in content :
       \/ \E b \in blogs : b.content_id = c
       \/ \E p \in pages : p.content_id = c

\* C7 witness: a static Post failed on the key of a page already stored.
C7_Witness ==
  /\ last.kind = "staticPost"
  /\ last.step1 = "ok"
  /\ last.step2 = "fail"
  /\ last.contentId > 1
  /\ pages # {}

\* C8: the first step of a run is called with no prior result, the second
\* with the result of the first of the same run, and the index row the run
\* writes carries the id its own content insert generated.
C8_StepsChained ==
  /\ \A w \in Workers :
       (pc[w] \in {"tx2", "txend"} /\ req[w].step1 # "none") =>
         req[w].arg1 = NoResult
  /\ \A w \in Workers :
       (pc[w] = "txend" /\ req[w].step2 # "none") =>
         /\ req[w].arg2 = req[w].contentId
         /\ req[w].step2 = "ok" => req[w].indexCid = req[w].contentId
  /\ \A b \in blogs \cup pages : b.content_id \in 1..MaxRows

\* C8 witness: two runs are open at once and the second step of the later
\* one has used the id of its own content row.
C8_Witness ==
  \E w \in Workers, v \in Workers :
    /\ w # v
    /\ pc[w] = "txend" /\ req[w].step2 = "ok" /\ req[w].contentId = 2
    /\ req[w].indexCid = 2
    /\ pc[v] \in {"tx2", "txend"} /\ req[v].contentId = 1

\* C9 as claimed: an authorized blog Delete whose Connection call failed,
\* whose RowsAffected failed or which did not affect 2 rows returns a
\* non-nil error with status 500.
C9_DeleteFailurePropagated ==
  (last.kind = "blogDelete" /\ last.authorized
   /\ last.failure \in {"conn", "rows", "count"}) =>
    /\ last.error
    /\ last.status = StatusInternalServerError

\* C10: a login whose verify closure returned an infrastructure error is
\* answered 500 without a session, and the handler neither penalises nor
\* clears: its return leaves the penalty map as it was.
C10_InfraErrorLeavesPenalty ==
  /\ (LoginAnswered /\ last.found = "infra") =>
       /\ last.status = StatusInternalServerError
       /\ last.error
       /\ last.session = NoSession
       /\ last.penOp = "none"
  /\ \A w \in Workers :
       (pc[w] = "update" /\ req[w].found = "infra") =>
         (req[w].session = NoSession /\ req[w].err)

\* C10 witness: a login was answered 500 after a failed lookup.
C10_Witness ==
  /\ LoginAnswered
  /\ last.found = "infra"
  /\ last.status = StatusInternalServerError
  /\ ~last.penAfter

\* Positions of the recorded logins of origin o.
LoginsOf(o) == {i \in 1..Len(hist) : hist[i].ip = o}

\* Workers with a login of origin o past the gate.
InFlightOf(o) == {w \in PastGate : req[w].ip = o}

\* C11: when every recorded login of an origin had wrong credentials, at
\* least one was made and all of them have returned, the origin is penalised,
\* whatever the interleaving of their gate checks, lookups and updates.
C11_FailedLoginsEndPenalised ==
  \A o \in Origins :
    (/\ LoginsOf(o) # {}
     /\ \A i \in LoginsOf(o) : ~hist[i].correct
     /\ InFlightOf(o) = {}) => penalty[o]

\* C11 witness: two logins of one origin both passed the gate before either
\* returned, both were answered 401, and the origin is penalised.
C11_Witness ==
  \E o \in Origins :
    /\ InFlightOf(o) = {}
    /\ \E i, j \in LoginsOf(o) :
         /\ i < j
         /\ hist[i].status = StatusUnauthorized /\ ~hist[i].penBefore
         /\ hist[j].status = StatusUnauthorized /\ ~hist[j].penBefore
         /\ hist[j].seen < i
    /\ penalty[o]

\* A successful login of origin o returned, and so cleared o, after the
\* recorded login i returned and before the gate check that had seen n
\* recorded logins return.
ClearedBetween(o, i, n) ==
  \E k \in LoginsOf(o) : i < k /\ k <= n /\ hist[k].status = StatusOK

\* C12: once a login of origin o has been answered 401, every login of o
\* whose gate check comes after that return, with no successful login of o
\* returning in between, finds o penalised and is answered 429 without a
\* credential query.
C12_PenaltySeenAfterFailure ==
  \A o \in Origins : \A i, j \in LoginsOf(o) :
    (/\ hist[i].status = StatusUnauthorized
     /\ i <= hist[j].seen
     /\ ~ClearedBetween(o, i, hist[j].seen)) =>
      /\ hist[j].penBefore
      /\ hist[j].status = StatusTooManyRequests
      /\ hist[j].found = "none"

\* C12 witness: a login with the right credentials, made after a login of
\* the same origin was answered 401, was answered 429.
C12_Witness ==
  \E o \in Origins : \E i, j \in LoginsOf(o) :
    /\ hist[i].status = StatusUnauthorized
    /\ i <= hist[j].seen
    /\ hist[j].correct
    /\ hist[j].status = StatusTooManyRequests

\* This step is the return of a login of origin o that failed on its
\* credentials: the handler calls Penalise(o).
Penalising(o) ==
  \E w \in Workers :
    /\ pc[w] = "update" /\ pc'[w] = "idle"
    /\ req[w].ip = o /\ ~req[w].ok /\ ~req[w].err

\* This step is the return of a successful login of origin o: the handler
\* calls NoPenalty(o).
Clearing(o) ==
  \E w \in Workers :
    /\ pc[w] = "update" /\ pc'[w] = "idle"
    /\ req[w].ip = o /\ req[w].ok /\ ~req[w].err

\* C13: no origin is penalised at the start; a step that penalises o leaves
\* o penalised, a step that clears o leaves it not penalised, and every other
\* step leaves the flag of o as it was, so o is not penalised before its
\* first penalise and stays penalised from a penalise to the next clear;
\* penalising or clearing once more changes nothing.
C13_PenaltyFollowsOperations ==
  /\ \A o \in Origins : ~Penalised(penalty, o)
  /\ [][\A o \in Origins :
          /\ Penalising(o) =>
               /\ Penalised(penalty', o)
               /\ Penalise(penalty', o) = penalty'
          /\ Clearing(o) =>
               /\ ~Penalised(penalty', o)
               /\ NoPenalty(penalty', o) = penalty'
          /\ (~Penalising(o) /\ ~Clearing(o)) =>
               Penalised(penalty', o) = Penalised(penalty, o)]_vars

\* C13 witness: after a login succeeded, and so cleared its origin, a failed
\* login has penalised its origin while another origin is not penalised.
C13_Witness ==
  /\ LoginAnswered
  /\ last.status = StatusUnauthorized
  /\ last.penOp = "penalise"
  /\ \E u \in Usernames : sessions[u] # NoSession
  /\ \E o, q \in Origins : penalty[o] /\ ~penalty[q]

\* What the caller of a login sees: the response and the penalty state its
\* origin is left in.
Visible(a) ==
  [status |-> a.status, message |-> a.message, session |-> a.session,
   penAfter |-> a.penAfter]

\* C14: two logins of one origin that both found it not penalised, one for
\* a name without an account and one with a wrong passphrase, are answered
\* alike: status 401, the same error, no session, and the origin penalised.
C14_UnknownUserLikeWrongPassphrase ==
  \A o \in Origins : \A i, j \in LoginsOf(o) :
    (/\ ~hist[i].penBefore /\ hist[i].found = "nouser"
     /\ ~hist[j].penBefore /\ hist[j].found = "mismatch") =>
      /\ Visible(hist[i]) = Visible(hist[j])
      /\ hist[i].status = StatusUnauthorized

\* C14 witness: one origin has made a login of each kind.
C14_Witness ==
  \E o \in Origins : \E i, j \in LoginsOf(o) :
    /\ ~hist[i].penBefore /\ hist[i].found = "nouser"
    /\ ~hist[j].penBefore /\ hist[j].found = "mismatch"
    /\ hist[i].username # hist[j].username

\* C15 as claimed: whenever no request is in flight, no result handle of a
\* query is held open.
C15_HandlesReleased ==
  (\A w \in Workers : pc[w] = "idle") => open = 0

C17_TimeoutRollsBack ==
  (last.kind \in PostKinds /\ last.timedOut) =>
    /\ ~last.committed
    /\ last.contentId \notin content

\* C18 as claimed: a blog Get, and an authorized blog Put or blog Delete,
\* whose statement the store answered and whose id names no row of the
\* store, is answered 404.
C18_AbsentIdNotFound ==
  (/\ last.kind \in {"blogGet", "blogPut", "blogDelete"}
   /\ last.found = "norow") => last.status = StatusNotFound

\* C19: the session a successful login returns expires at its time of
\* issuance plus the period asked for when that period is at most the
\* maximum, and at its time of issuance plus the maximum otherwise; no
\* session of the table expires later than now plus the maximum.
C19_ExpirationClamped ==
  /\ (LoginAnswered /\ last.status = StatusOK) =>
       /\ last.period <= MaxPeriod =>
            last.session.expiration = last.issued + last.period
       /\ last.period > MaxPeriod =>
            last.session.expiration = last.issued + MaxPeriod
       /\ last.session.expiration <= last.issued + MaxPeriod
  /\ \A u \in Usernames :
       sessions[u] # NoSession => sessions[u].expiration <= now + MaxPeriod

\* C19 witness: a login made after the clock moved asked for more than the
\* maximum and got a session of the maximum period.
C19_Witness ==
  /\ LoginAnswered
  /\ last.status = StatusOK
  /\ last.issued > 0
  /\ last.period > MaxPeriod
  /\ last.session.expiration = last.issued + MaxPeriod

\* C20: the flag of an origin changes only in a step in which a login of
\* that origin returns, so the outcome of a login leaves the flag of every
\* other origin as it was; and a login is answered 429 exactly when its own
\* origin was penalised at its gate, whatever its identity and credentials.
C20_PenaltyKeyedByOrigin ==
  /\ [][\A o \in Origins :
          penalty'[o] # penalty[o] =>
            \E w \in Workers :
              pc[w] = "update" /\ pc'[w] = "idle" /\ req[w].ip = o]_vars
  /\ [](\A j \in 1..Len(hist) :
          hist[j].penBefore <=> hist[j].status = StatusTooManyRequests)

\* C20 witness: after a name without an account failed from an origin, an
\* account that had never failed a login was answered 429 from that origin
\* with the right credentials, while another origin is not penalised.
C20_Witness ==
  \E o \in Origins : \E i, j \in LoginsOf(o) :
    /\ i < j
    /\ hist[i].status = StatusUnauthorized
    /\ hist[j].username # hist[i].username
    /\ hist[j].correct
    /\ hist[j].status = StatusTooManyRequests
    /\ \A k \in 1..j :
         hist[k].username = hist[j].username =>
           hist[k].status \in {StatusOK, StatusTooManyRequests}
    /\ \E q \in Origins : q # o /\ ~penalty[q]

\* The recorded login i ran its verify closure and failed on its credentials.
FailedVerify(i) == hist[i].found \in {"nouser", "mismatch"}

\* No successful login of origin o returned, and so cleared o, between the
\* returns of the recorded logins i and j.
SameWindow(o, i, j) ==
  ~\E k \in LoginsOf(o) : i < k /\ k < j /\ hist[k].status = StatusOK

\* C21 as claimed: between two consecutive clears of an origin at most one
\* login that fails on its credentials has its verify closure run.
C21_Original ==
  \A o \in Origins : \A i, j \in LoginsOf(o) :
    (i < j /\ FailedVerify(i) /\ FailedVerify(j)) => ~SameWindow(o, i, j)

\* C21 as amended: of two logins of an origin that both ran verify and failed
\* with no clear between their returns, the later passed its gate before the
\* earlier returned; so there are at most as many of them between two clears
\* as there are workers, and none passes the gate after the first returned.
C21_FailedVerifiesOverlap ==
  \A o \in Origins :
    /\ \A i, j \in LoginsOf(o) :
         (i < j /\ FailedVerify(i) /\ FailedVerify(j)
          /\ SameWindow(o, i, j)) => hist[j].seen < i
    /\ \A i \in LoginsOf(o) :
         Cardinality({j \in LoginsOf(o) :
                        /\ i <= j /\ FailedVerify(i) /\ FailedVerify(j)
                        /\ SameWindow(o, i, j)}) <= Cardinality(Workers)

\* C21 witness: two guesses of one origin ran verify with no clear between
\* them, and a later login of that origin was answered 429.
C21_Witness ==
  \E o \in Origins : \E i, j, k \in LoginsOf(o) :
    /\ i < j /\ j < k
    /\ FailedVerify(i) /\ FailedVerify(j) /\ SameWindow(o, i, j)
    /\ hist[i].username # hist[j].username
    /\ hist[k].status = StatusTooManyRequests

\* Origin o is penalised and no login of o is past the gate.
Shut(o) == penalty[o] /\ InFlightOf(o) = {}

\* C22: from a state where origin o is penalised and no login of o is past
\* the gate, every step leads to such a state again, every login of o that
\* returns in the step is answered 429 without a session, and a step that
\* stores a session is the step of a login of another origin.  The logins
\* are the requests whose body was read and parsed; the only clears are the
\* handler's own.
C22_PenaltyAbsorbing ==
  [][\A o \in Origins :
       Shut(o) =>
         /\ Shut(o)'
         /\ (Len(hist') > Len(hist) /\ hist'[Len(hist')].ip = o) =>
              /\ hist'[Len(hist')].status = StatusTooManyRequests
              /\ hist'[Len(hist')].session = NoSession
         /\ sessions' # sessions =>
              \E w \in Workers :
                pc[w] = "auth" /\ pc'[w] = "update" /\ req[w].ip # o]_vars

\* C22 witness: after a failed login penalised an origin, two logins of it
\* with the right credentials were each answered 429; none is in flight.
C22_Witness ==
  \E o \in Origins : \E i, j, k \in LoginsOf(o) :
    /\ i < j /\ j < k
    /\ hist[i].status = StatusUnauthorized
    /\ hist[j].correct /\ hist[j].status = StatusTooManyRequests
    /\ hist[k].correct /\ hist[k].status = StatusTooManyRequests
    /\ Shut(o)

\* Recorded logins i and j of one origin ran concurrently: j, which returned
\* last, passed the gate before i returned.
Concurrent(i, j) == i < j /\ hist[j].seen < i

\* Recorded login i returned 200 with a session.
Succeeded(i) == hist[i].status = StatusOK /\ hist[i].session # NoSession

\* C23: when a successful and a failed login of one origin run concurrently,
\* the successful one has not returned 200 with a session while the origin is
\* penalised once both have returned, and the penalty of the failed one is
\* not erased by the clear of a success that Authenticate had decided before
\* the failed one returned.
C23_ConcurrentAsSequential ==
  \A o \in Origins : \A i, j \in LoginsOf(o) :
    Concurrent(i, j) =>
      /\ (Succeeded(i) /\ FailedVerify(j)) => ~hist[j].penAfter
      /\ (FailedVerify(i) /\ Succeeded(j) /\ hist[j].decided < i) =>
           hist[j].penAfter

\* The create that finished last ran both of its steps without an error.
StepsSucceeded ==
  last.kind \in PostKinds /\ last.step1 = "ok" /\ last.step2 = "ok"

\* Index rows, of either table, that refer to content row c.
IndexRowsOf(c) == {b \in blogs \cup pages : b.content_id = c}

\* C24 as claimed: a create whose steps all succeeded is committed, both of
\* its rows are in the store, and blog Post is answered 200 with the id of
\* its index row.
C24_Original ==
  StepsSucceeded =>
    /\ last.committed
    /\ last.contentId \in content
    /\ Cardinality(IndexRowsOf(last.contentId)) = 1
    /\ last.kind = "blogPost" =>
         /\ last.status = StatusOK
         /\ [id |-> last.id, content_id |-> last.contentId] \in blogs

\* C24: a create whose steps all succeeded is committed unless the commit
\* itself failed (500, neither row stored); once committed, its content row
\* and exactly one index row of it are in the store; blog Post is then
\* answered 200 with the id of that index row, or 500 when the id of the
\* result could not be read, and static Post 200.  The content row of a run
\* that has not ended is not in the store, and no content row of the store
\* is without its index row.
C24_CommittedRunStoresBoth ==
  /\ StepsSucceeded =>
       /\ last.committed = (last.failure # "commitErr")
       /\ IF last.committed
            THEN /\ last.contentId \in content
                 /\ Cardinality(IndexRowsOf(last.contentId)) = 1
            ELSE /\ last.contentId \notin content
                 /\ IndexRowsOf(last.contentId) = {}
                 /\ last.status = StatusInternalServerError
       /\ (last.committed /\ last.kind = "blogPost") =>
            IF last.failure = "none"
              THEN /\ last.status = StatusOK
                   /\ [id |-> last.id, content_id |-> last.contentId] \in blogs
              ELSE /\ last.failure = "idErr"
                   /\ last.status = StatusInternalServerError
       /\ (last.committed /\ last.kind = "staticPost") =>
            last.status = StatusOK
  /\ \A w \in Workers :
       (pc[w] \in {"tx2", "txend"} /\ req[w].step1 = "ok") =>
         /\ req[w].contentId \notin content
         /\ IndexRowsOf(req[w].contentId) = {}
  /\ \A c \in content : IndexRowsOf(c) # {}

\* C24 witness: a blog Post was answered 200 with the id of its index row,
\* which is not the id of its content row, and both rows are in the store.
C24_Witness ==
  /\ StepsSucceeded
  /\ last.kind = "blogPost"
  /\ last.status = StatusOK
  /\ last.committed
  /\ last.id # last.contentId
  /\ last.contentId \in content
  /\ [id |-> last.id, content_id |-> last.contentId] \in blogs

====
